---------------------------- MODULE Spec2Model ----------------------------
(***************************************************************************)
(* A model of MetricEvaluator (src/metric_evaluator.py): loading the two   *)
(* delimited files, validating them against each other, and the four       *)
(* metric computations.  Text is modelled as TLA+ strings and handled      *)
(* character by character, so parsing and decoding are real conversions.   *)
(***************************************************************************)
EXTENDS Integers, Sequences, FiniteSets, TLC

VARIABLES
    true_file,   \* constructor argument: the lines of the reference file
    pred_file,   \* constructor argument: the lines of the prediction file
    pandas,      \* the installed pandas line, fixed for a whole run
    true_csv,    \* self.true_csv
    pred_csv,    \* self.pred_csv
    evaluator,   \* "none": no instance yet, "ready": __init__ returned, "failed": __init__ raised
    op,          \* the last method called
    per_row,     \* the per-row metrics table the caller hands to the grouping methods
    ret,         \* what the last call returned (NoRet when it raised)
    raised       \* what the last call raised (NoError when it returned)

vars == <<true_file, pred_file, pandas, per_row, true_csv, pred_csv, evaluator, op, ret, raised>>

---------------------------------------------------------------------------
(* Bounds of the model *)

\* most data rows of a file in the loading specification
MaxFileRows == 2
\* most rows of the two tables of a constructed evaluator
MaxRows == 2
\* most rows of a per-row metrics table handed to a grouping method
MaxDfRows == 3

---------------------------------------------------------------------------
(* Text helpers *)

Char(s, i) == SubSeq(s, i, i)

Max(a, b) == IF a >= b THEN a ELSE b
Min(a, b) == IF a <= b THEN a ELSE b

Range(s) == {s[i] : i \in 1..Len(s)}

RECURSIVE SumSeq(_)
SumSeq(s) == IF Len(s) = 0 THEN 0 ELSE s[1] + SumSeq(SubSeq(s, 2, Len(s)))

RECURSIVE Contains(_, _)
Contains(s, c) ==
    IF Len(s) = 0 THEN FALSE
    ELSE IF Char(s, 1) = c THEN TRUE
    ELSE Contains(SubSeq(s, 2, Len(s)), c)

RECURSIVE Join(_, _)
Join(fields, sep) ==
    IF Len(fields) = 0 THEN ""
    ELSE IF Len(fields) = 1 THEN fields[1]
    ELSE fields[1] \o sep \o Join(SubSeq(fields, 2, Len(fields)), sep)

\* str.strip() for blanks
RECURSIVE Strip(_)
Strip(s) ==
    IF Len(s) = 0 THEN s
    ELSE IF Char(s, 1) = " " THEN Strip(SubSeq(s, 2, Len(s)))
    ELSE IF Char(s, Len(s)) = " " THEN Strip(SubSeq(s, 1, Len(s) - 1))
    ELSE s

---------------------------------------------------------------------------
(* Outcomes: every modelled call yields a return value or an exception *)

NoError == [type |-> "none", from |-> "none"]
Error(t, f) == [type |-> t, from |-> f]

NoTable == [columns |-> <<>>, index |-> <<>>, rows |-> <<>>]
NoRet == [kind |-> "none", value |-> NoTable]

---------------------------------------------------------------------------
(* pandas.read_csv *)

\* the first position from i on that holds c, or one past the end
Find(line, c, i) ==
    LET at == {j \in i..Len(line) : Char(line, j) = c}
    IN  IF at = {} THEN Len(line) + 1 ELSE CHOOSE j \in at : \A k \in at : j <= k

\* The C tokenizer, one field per step: a field runs to the next sep; a
\* field that opens with a double quote holds everything up to the closing
\* quote, separators included, and then runs on to the next sep.  A quote
\* left open yields no fields here, and read_csv raises for it.
\* Cells hold no double quote, so the "" escape never occurs.
IsQuoted(line, i) == i <= Len(line) /\ Char(line, i) = "\""
QuotedField(line, i, close, stop) ==
    SubSeq(line, i + 1, close - 1) \o SubSeq(line, close + 1, stop - 1)

RECURSIVE tokenize(_, _, _, _)
field_done(line, sep, stop, fields) ==
    IF stop > Len(line) THEN fields ELSE tokenize(line, sep, stop + 1, fields)

quoted_field(line, sep, i, done, close) ==
    IF close > Len(line) THEN <<>>
    ELSE field_done(line, sep, Find(line, sep, close + 1),
             Append(done, QuotedField(line, i, close, Find(line, sep, close + 1))))

tokenize(line, sep, i, done) ==
    IF IsQuoted(line, i) THEN quoted_field(line, sep, i, done, Find(line, "\"", i + 1))
    ELSE field_done(line, sep, Find(line, sep, i),
             Append(done, SubSeq(line, i, Find(line, sep, i) - 1)))

Fields(line, sep) == tokenize(line, sep, 1, <<>>)

\* Missing trailing fields are filled in (NaN, written "" here).
Pad(fields, n) == [k \in 1..Max(n, Len(fields)) |-> IF k <= Len(fields) THEN fields[k] ELSE ""]

\* the field count every data row is held to: the first data row's, and at
\* least the header's
Expected(toks) == IF Len(toks) >= 2 THEN Max(Len(toks[1]), Len(toks[2])) ELSE Len(toks[1])

BadLines(toks) ==
    {k \in 3..Len(toks) : Len(toks[k]) > Expected(toks)} \cup {k \in 1..Len(toks) : Len(toks[k]) = 0}

ColumnAt(header, c) == CHOOSE j \in 1..Len(header) : header[j] = c

Frame(toks, header, lead) ==
    [columns |-> header,
     index |-> [k \in 1..(Len(toks) - 1) |-> [j \in 1..lead |-> Pad(toks[k + 1], lead)[j]]],
     rows |-> [k \in 1..(Len(toks) - 1) |->
                  [c \in Range(header) |->
                      Pad(toks[k + 1], lead + Len(header))[lead + ColumnAt(header, c)]]]]

parse(toks) ==
    IF Len(toks) = 0 THEN
        [raised |-> Error("EmptyDataError", "read_csv"), table |-> NoTable]
    ELSE IF BadLines(toks) # {} THEN
        [raised |-> Error("ParserError", "read_csv"), table |-> NoTable]
    ELSE
        [raised |-> NoError, table |-> Frame(toks, toks[1], Expected(toks) - Len(toks[1]))]

NonBlank(file) == SelectSeq(file, LAMBDA l : l # "")
Tokens(lines, sep) == [k \in 1..Len(lines) |-> Fields(lines[k], sep)]

\* read_csv(file, sep) with the defaults the source leaves in place: the first
\* line is the header; blank lines are skipped; the first data row sets the
\* expected field count (at least the header's), a later row with more
\* fields is a ParserError ("Expected n fields in line k, saw m"), one with
\* fewer is padded; fields of the first data row beyond the header's count
\* become the index.  A quote left open is a ParserError too ("EOF inside
\* string").  An input without any line is an EmptyDataError.
read_csv(file, sep) == parse(Tokens(NonBlank(file), sep))

---------------------------------------------------------------------------
(* MetricEvaluator.read_file, validate_data, __init__ *)

except_ParserError(file, first) ==
    IF first.raised.type = "ParserError" THEN read_csv(file, "\t") ELSE first

\* try: read_csv(sep=","); except ParserError: read_csv(sep="\t")
read_file(file) == except_ParserError(file, read_csv(file, ","))

ColumnsError == Error("ValueError", "validate_data: columns")
RowsError == Error("ValueError", "validate_data: rows")

\* validate_data comparing the column names as sets: a faulty variant
validate_data_unordered(t, p) ==
    IF Range(t.columns) # Range(p.columns) THEN ColumnsError
    ELSE IF Len(t.rows) # Len(p.rows) THEN RowsError
    ELSE NoError

\* validate_data without its row-count check: a faulty variant
validate_data_no_rows(t, p) ==
    IF t.columns # p.columns THEN ColumnsError ELSE NoError

validate_data(t, p) ==
    IF t.columns # p.columns THEN ColumnsError
    ELSE IF Len(t.rows) # Len(p.rows) THEN RowsError
    ELSE NoError

constructed(t, p) ==
    IF t.raised # NoError THEN
        [true_csv |-> NoTable, pred_csv |-> NoTable, raised |-> t.raised]
    ELSE IF p.raised # NoError THEN
        [true_csv |-> t.table, pred_csv |-> NoTable, raised |-> p.raised]
    ELSE
        [true_csv |-> t.table, pred_csv |-> p.table, raised |-> validate_data(t.table, p.table)]

\* __init__: the attributes are assigned as the reads return; the first
\* exception ends the constructor and no instance reaches the caller.
init(tf, pf) == constructed(read_file(tf), read_file(pf))

---------------------------------------------------------------------------
(* ast.literal_eval on the text of an answers cell *)

SyntaxError == Error("SyntaxError", "ast.literal_eval")
MalformedNode == Error("ValueError", "ast.literal_eval")
DecodeErrors == {SyntaxError, MalformedNode}

\* the Python value: its type and, for a container, its items as iteration
\* yields them
Decoded(kind, items) == [raised |-> NoError, kind |-> kind, value |-> items]
Undecoded(e) == [raised |-> e, kind |-> "none", value |-> <<>>]

Closing(kind) == IF kind = "list" THEN "]" ELSE "}"

\* A display of single-quoted strings: [ 'x', 'y' ] is a list, { 'x' } a set
\* (the model reads sets of one item only: the order in which a larger set
\* yields its strings depends on the hash seed).  Text that ends early or
\* has anything else where an item, a comma or the closing bracket is due
\* does not parse.
RECURSIVE scan_list(_, _, _, _, _, _)
scan_char(s, i, kind, state, items, cur, c) ==
    CASE state = "item" ->
            IF c = " " THEN scan_list(s, i + 1, kind, "item", items, cur)
            ELSE IF c = "'" THEN scan_list(s, i + 1, kind, "string", items, "")
            ELSE IF c = Closing(kind) THEN scan_list(s, i + 1, kind, "closed", items, cur)
            ELSE Undecoded(SyntaxError)
      [] state = "string" ->
            IF c = "'" THEN scan_list(s, i + 1, kind, "after", Append(items, cur), "")
            ELSE scan_list(s, i + 1, kind, "string", items, cur \o c)
      [] state = "after" ->
            IF c = " " THEN scan_list(s, i + 1, kind, "after", items, cur)
            ELSE IF c = "," THEN scan_list(s, i + 1, kind, "item", items, cur)
            ELSE IF c = Closing(kind) THEN scan_list(s, i + 1, kind, "closed", items, cur)
            ELSE Undecoded(SyntaxError)
      [] OTHER ->  \* closed
            IF c = " " THEN scan_list(s, i + 1, kind, "closed", items, cur)
            ELSE Undecoded(SyntaxError)

scan_list(s, i, kind, state, items, cur) ==
    IF i > Len(s) THEN (IF state = "closed" THEN Decoded(kind, items) ELSE Undecoded(SyntaxError))
    ELSE scan_char(s, i, kind, state, items, cur, Char(s, i))

\* literal_eval takes any Python literal, not lists alone.  Of the texts that
\* are no display, the model reads the bare word: it parses as a name, which
\* literal_eval refuses as a malformed node.  Empty text is a syntax error.
eval_stripped(s) ==
    IF Len(s) = 0 THEN Undecoded(SyntaxError)
    ELSE IF Char(s, 1) = "[" THEN scan_list(s, 2, "list", "item", <<>>, "")
    ELSE IF Char(s, 1) = "{" THEN scan_list(s, 2, "set", "item", <<>>, "")
    ELSE Undecoded(MalformedNode)

literal_eval(text) == eval_stripped(Strip(text))

---------------------------------------------------------------------------
(* jiwer.wer and jiwer.cer *)

Chars(s) == [i \in 1..Len(s) |-> Char(s, i)]

\* str.split(" ") without the empty pieces
RECURSIVE split_words(_, _, _, _)
split_words(s, i, done, cur) ==
    IF i > Len(s) THEN (IF cur = "" THEN done ELSE Append(done, cur))
    ELSE IF Char(s, i) = " "
         THEN split_words(s, i + 1, IF cur = "" THEN done ELSE Append(done, cur), "")
         ELSE split_words(s, i + 1, done, cur \o Char(s, i))

Words(sentence) == split_words(sentence, 1, <<>>, "")
Characters(sentence) == Chars(Strip(sentence))

\* One cell of the edit-distance table from its three neighbours.
lev_cell(up, left, diag, same) == Min(Min(up + 1, left + 1), diag + (IF same THEN 0 ELSE 1))

\* One row of the edit-distance table from the row above it.
RECURSIVE lev_row(_, _, _, _, _)
lev_next(prev, x, b, j, next) ==
    IF Len(next) = j + 1 THEN lev_row(prev, x, b, j + 1, next) ELSE next

lev_row(prev, x, b, j, acc) ==
    IF j > Len(b) THEN acc
    ELSE lev_next(prev, x, b, j, Append(acc, lev_cell(prev[j + 1], acc[j], prev[j], x = b[j])))

RECURSIVE lev_rows(_, _, _, _)
lev_step(a, b, i, row) ==
    IF Len(row) = Len(b) + 1 THEN lev_rows(a, b, i + 1, row) ELSE -1

lev_rows(a, b, i, prev) ==
    IF i > Len(a) THEN prev[Len(b) + 1]
    ELSE lev_step(a, b, i, lev_row(prev, a[i], b, 1, <<prev[1] + 1>>))

\* substitutions + deletions + insertions of the cheapest alignment
Levenshtein(a, b) == lev_rows(a, b, 1, [j \in 1..(Len(b) + 1) |-> j - 1])

JiwerEmptyReference == Error("ValueError", "jiwer: empty reference")
JiwerLengths == Error("ValueError", "jiwer: lengths must match")
JiwerInput == Error("ValueError", "jiwer: expected a string or list of strings")
JiwerDivision == Error("ZeroDivisionError", "jiwer")

Rate(e, n, d) == [raised |-> e, value |-> [num |-> n, den |-> d]]

rate_of(edits, units) ==
    IF units = 0 THEN Rate(JiwerDivision, 0, 1) ELSE Rate(NoError, edits, units)

\* The error rate over paired sentences: total edits over total reference
\* units, as the fraction num/den.  An empty reference string, lists of
\* different lengths and a reference without any unit are errors.
\* ref_units and hyp_units are the sentences split into their units.
error_rate(reference, hypothesis, ref_units, hyp_units) ==
    IF \E k \in 1..Len(reference) : Len(reference[k]) = 0 THEN Rate(JiwerEmptyReference, 0, 1)
    ELSE IF Len(reference) # Len(hypothesis) THEN Rate(JiwerLengths, 0, 1)
    ELSE rate_of(SumSeq([k \in 1..Len(reference) |-> Levenshtein(ref_units[k], hyp_units[k])]),
                 SumSeq([k \in 1..Len(reference) |-> Len(ref_units[k])]))

wer(reference, hypothesis) ==
    error_rate(reference, hypothesis,
               [k \in 1..Len(reference) |-> Words(reference[k])],
               [k \in 1..Len(hypothesis) |-> Words(hypothesis[k])])

cer(reference, hypothesis) ==
    error_rate(reference, hypothesis,
               [k \in 1..Len(reference) |-> Characters(reference[k])],
               [k \in 1..Len(hypothesis) |-> Characters(hypothesis[k])])

---------------------------------------------------------------------------
(* sacrebleu.corpus_bleu *)

MAX_NGRAM_ORDER == 4

NGrams(toks, n) == {SubSeq(toks, i, i + n - 1) : i \in 1..(Len(toks) - n + 1)}
CountOf(g, toks, n) == Cardinality({i \in 1..(Len(toks) - n + 1) : SubSeq(toks, i, i + n - 1) = g})

\* the sum of a function's values
RECURSIVE SumOver(_, _)
SumOver(f, S) ==
    IF S = {} THEN 0
    ELSE f[CHOOSE y \in S : TRUE] + SumOver(f, S \ {CHOOSE y \in S : TRUE})

\* clipped n-gram matches of one hypothesis against its reference
Matches(hyp, ref, n) ==
    SumOver([g \in NGrams(hyp, n) |-> Min(CountOf(g, hyp, n), CountOf(g, ref, n))],
            NGrams(hyp, n))

\* The score is bp * exp(mean of log precision_n, n = 1..4): exactly 0.0
\* when nothing matches or the hypotheses hold no n-gram of some order
\* (precision_n stays 0), 100.0 when every n-gram of every order matches and
\* the hypotheses are not shorter than the references, strictly between
\* otherwise, where the statistics name the value.
bleu_score_of(correct, total, sys_len, ref_len) ==
    IF correct[1] = 0 \/ \E n \in 1..MAX_NGRAM_ORDER : total[n] = 0 THEN "0.0"
    ELSE IF sys_len >= ref_len /\ \A n \in 1..MAX_NGRAM_ORDER : correct[n] = total[n] THEN "100.0"
    ELSE "between 0 and 100"

BLEU(correct, total, sys_len, ref_len) ==
    [correct |-> correct, total |-> total, sys_len |-> sys_len, ref_len |-> ref_len,
     score |-> bleu_score_of(correct, total, sys_len, ref_len)]

\* the n-gram statistics summed over the sentence pairs
bleu_stats(hyp, ref) ==
    BLEU([n \in 1..MAX_NGRAM_ORDER |-> SumSeq([k \in 1..Len(hyp) |-> Matches(hyp[k], ref[k], n)])],
         [n \in 1..MAX_NGRAM_ORDER |-> SumSeq([k \in 1..Len(hyp) |-> Max(0, Len(hyp[k]) - n + 1)])],
         SumSeq([k \in 1..Len(hyp) |-> Len(hyp[k])]),
         SumSeq([k \in 1..Len(hyp) |-> Len(ref[k])]))

\* corpus_bleu(hypotheses, [references]) with its defaults (13a
\* tokenisation, which on lower-case words is the split at blanks;
\* exponential smoothing; no effective order).  It is reached with lists of
\* equal length only: wer has raised otherwise.
corpus_bleu(hypotheses, references) ==
    bleu_stats([k \in 1..Min(Len(hypotheses), Len(references)) |-> Words(hypotheses[k])],
               [k \in 1..Min(Len(hypotheses), Len(references)) |-> Words(references[k])])

---------------------------------------------------------------------------
(* MetricEvaluator.calculate_metrics_by_id *)

KeyError(column) == Error("KeyError", column)

\* df[c]
Column(df, c) == [k \in 1..Len(df.rows) |-> df.rows[k][c]]

HasColumn(df, c) == \E j \in 1..Len(df.columns) : df.columns[j] = c

\* DataFrame.drop(columns=c): a new frame without the column
drop(df, c) ==
    [columns |-> SelectSeq(df.columns, LAMBDA x : x # c),
     index |-> df.index,
     rows |-> [k \in 1..Len(df.rows) |->
                  [x \in Range(df.columns) \ {c} |-> df.rows[k][x]]]]

NoMetrics == [wer_error |-> [num |-> 0, den |-> 1], cer_error |-> [num |-> 0, den |-> 1],
              bleu_score |-> BLEU(<<0, 0, 0, 0>>, <<0, 0, 0, 0>>, 0, 0)]

Failed(e) == [raised |-> e, value |-> NoMetrics]

three(w, c, bleu) ==
    IF w.raised # NoError THEN Failed(w.raised)
    ELSE IF c.raised # NoError THEN Failed(c.raised)
    ELSE [raised |-> NoError,
          value |-> [wer_error |-> w.value, cer_error |-> c.value, bleu_score |-> bleu]]

\* the three metrics with corpus_bleu given the predictions as hypotheses
metrics_bleu_swapped(Y_true, y_pred) ==
    three(wer(Y_true, y_pred), cer(Y_true, y_pred), corpus_bleu(y_pred, Y_true))

\* wer, cer and corpus_bleu as lines 62-70 and 137-139 call them, the
\* reference answers first; the first call that raises ends the sequence
metrics(Y_true, y_pred) ==
    three(wer(Y_true, y_pred), cer(Y_true, y_pred), corpus_bleu(Y_true, y_pred))

\* wer is the first to get the two decoded values.  It looks for an empty
\* reference string, then hands each value to its transforms, which take a
\* list (or one string) and raise ValueError for any other container.
decoded_metrics(Y_true, y_pred) ==
    IF Y_true.raised # NoError THEN Failed(Y_true.raised)
    ELSE IF y_pred.raised # NoError THEN Failed(y_pred.raised)
    ELSE IF \E k \in 1..Len(Y_true.value) : Len(Y_true.value[k]) = 0 THEN Failed(JiwerEmptyReference)
    ELSE IF Y_true.kind # "list" \/ y_pred.kind # "list" THEN Failed(JiwerInput)
    ELSE metrics(Y_true.value, y_pred.value)

\* the body of the loop of lines 52-71 for one row
row_metrics(self, row) ==
    decoded_metrics(literal_eval(self.true_csv.rows[row]["answers"]),
                    literal_eval(self.pred_csv.rows[row]["answers"]))

\* the loop: rows in order, the lists growing, the first exception ending it
RECURSIVE by_id_loop(_, _, _)
by_id_step(self, row, lists, m) ==
    IF m.raised # NoError THEN [raised |-> m.raised, value |-> lists]
    ELSE by_id_loop(self, row + 1, Append(lists, m.value))

by_id_loop(self, row, lists) ==
    IF row > Len(self.true_csv.rows) THEN [raised |-> NoError, value |-> lists]
    ELSE by_id_step(self, row, lists, row_metrics(self, row))

MetricColumns == <<"pred_answers", "wer_error", "cer_error", "bleu_score">>

\* pd.concat([result_df, metrics], axis=1): both frames carry the default
\* index, so row k of one meets row k of the other.
concat(result_df, pred_answers, lists) ==
    [columns |-> result_df.columns \o MetricColumns,
     index |-> result_df.index,
     rows |-> [k \in 1..Len(result_df.rows) |->
                  [x \in Range(result_df.columns) \cup Range(MetricColumns) |->
                      IF x = "pred_answers" THEN pred_answers[k]
                      ELSE IF x \in Range(MetricColumns) THEN lists[k][x]
                      ELSE result_df.rows[k][x]]]]

by_id_result(self, result_df, after, loop) ==
    IF loop.raised # NoError THEN
        [self |-> after, raised |-> loop.raised, ret |-> NoRet]
    ELSE
        [self |-> after, raised |-> NoError,
         ret |-> [kind |-> "DataFrame",
                  value |-> concat(result_df, Column(self.pred_csv, "answers"), loop.value)]]

by_id_from(self, result_df, after) ==
    by_id_result(self, result_df, after, by_id_loop(self, 1, <<>>))

\* calculate_metrics_by_id dropping the column in place: a faulty variant
calculate_metrics_by_id_inplace(self) ==
    IF ~HasColumn(self.true_csv, "answear_bbox") THEN
        [self |-> self, raised |-> KeyError("answear_bbox"), ret |-> NoRet]
    ELSE by_id_from(self, drop(self.true_csv, "answear_bbox"),
                    [self EXCEPT !.true_csv = drop(self.true_csv, "answear_bbox")])

\* calculate_metrics_by_id pairing each row with the prediction after it: a faulty variant
calculate_metrics_by_id_shifted(self) ==
    by_id_from([self EXCEPT !.pred_csv.rows =
                    [k \in 1..Len(self.pred_csv.rows) |->
                        self.pred_csv.rows[IF k < Len(self.pred_csv.rows) THEN k + 1 ELSE 1]]],
               drop(self.true_csv, "answear_bbox"), self)

\* result_df = true_csv.drop(...) raises KeyError without the column and
\* leaves true_csv as it is; then the loop; then the concatenation.
calculate_metrics_by_id(self) ==
    IF ~HasColumn(self.true_csv, "answear_bbox") THEN
        [self |-> self, raised |-> KeyError("answear_bbox"), ret |-> NoRet]
    ELSE by_id_from(self, drop(self.true_csv, "answear_bbox"), self)

---------------------------------------------------------------------------
(* MetricEvaluator.calculate_metrics_general *)

Lists(e, true_answers, pred_answers) ==
    [raised |-> e, true_answers |-> true_answers, pred_answers |-> pred_answers]

\* the loop of lines 133-135: both lists extended row by row; list.extend
\* takes the items of any container
RECURSIVE general_loop(_, _, _, _)
general_step(self, row, true_answers, pred_answers, t, p) ==
    IF t.raised # NoError THEN Lists(t.raised, true_answers, pred_answers)
    ELSE IF p.raised # NoError THEN Lists(p.raised, true_answers \o t.value, pred_answers)
    ELSE general_loop(self, row + 1, true_answers \o t.value, pred_answers \o p.value)

general_loop(self, row, true_answers, pred_answers) ==
    IF row > Len(self.true_csv.rows) THEN Lists(NoError, true_answers, pred_answers)
    ELSE general_step(self, row, true_answers, pred_answers,
                      literal_eval(self.true_csv.rows[row]["answers"]),
                      literal_eval(self.pred_csv.rows[row]["answers"]))

general_result(self, m) ==
    IF m.raised # NoError THEN [self |-> self, raised |-> m.raised, ret |-> NoRet]
    ELSE [self |-> self, raised |-> NoError, ret |-> [kind |-> "dict", value |-> m.value]]

general_swapped(self, loop) ==
    IF loop.raised # NoError THEN [self |-> self, raised |-> loop.raised, ret |-> NoRet]
    ELSE general_result(self, metrics_bleu_swapped(loop.true_answers, loop.pred_answers))

\* calculate_metrics_general handing corpus_bleu its lists the other way
\* round: a faulty variant
calculate_metrics_general_swapped(self) ==
    general_swapped(self, general_loop(self, 1, <<>>, <<>>))

\* lines 137-145: the metrics of the two lists, once the loop is through
general_metrics(self, loop) ==
    IF loop.raised # NoError THEN [self |-> self, raised |-> loop.raised, ret |-> NoRet]
    ELSE general_result(self, metrics(loop.true_answers, loop.pred_answers))

calculate_metrics_general(self) ==
    general_metrics(self, general_loop(self, 1, <<>>, <<>>))

---------------------------------------------------------------------------
(* MetricEvaluator.calculate_metrics_by_doc_type *)

\* df[df[c] == v]
Where(df, c, v) == SelectSeq(df.rows, LAMBDA r : r[c] = v)

\* Series.mean(): the sum over the count, as the fraction num/den
mean(rows, c) == [num |-> SumSeq([k \in 1..Len(rows) |-> rows[k][c]]), den |-> Len(rows)]

FirstAt(values, v) == CHOOSE k \in 1..Len(values) : values[k] = v /\ \A j \in 1..(k - 1) : values[j] # v
Count(values, v) == Cardinality({k \in 1..Len(values) : values[k] = v})

\* Series.value_counts().index: the distinct values, the most frequent
\* first, equally frequent ones in the order they first appear
Top(values, left) ==
    CHOOSE v \in left : \A u \in left \ {v} :
        \/ Count(values, v) > Count(values, u)
        \/ Count(values, v) = Count(values, u) /\ FirstAt(values, v) < FirstAt(values, u)

RECURSIVE most_frequent_first(_, _)
most_frequent_first(values, left) ==
    IF left = {} THEN <<>>
    ELSE <<Top(values, left)>> \o most_frequent_first(values, left \ {Top(values, left)})

value_counts(values) == most_frequent_first(values, Range(values))

DocTypeColumns == <<"doc_class", "wer_error", "cer_error", "bleu_score">>

\* one row per document type, from the rows the mask selects for it
by_doc_type_rows(doc_types, members) ==
    [k \in 1..Len(doc_types) |->
        [doc_class |-> doc_types[k],
         wer_error |-> mean(members[k], "wer_error"),
         cer_error |-> mean(members[k], "cer_error"),
         bleu_score |-> mean(members[k], "bleu_score")]]

by_doc_type_frame(self, rows) ==
    [self |-> self, raised |-> NoError,
     ret |-> [kind |-> "DataFrame",
              value |-> [columns |-> DocTypeColumns,
                         index |-> [k \in 1..Len(rows) |-> <<>>],
                         rows |-> rows]]]

\* calculate_metrics_by_doc_type averaging over the whole table in every
\* group: a faulty variant
calculate_metrics_by_doc_type_unmasked(self, df) ==
    by_doc_type_frame(self,
        by_doc_type_rows(value_counts(Column(df, "doc_class")),
                         [k \in 1..Len(value_counts(Column(df, "doc_class"))) |-> df.rows]))

masked(df, doc_types) == [k \in 1..Len(doc_types) |-> Where(df, "doc_class", doc_types[k])]

by_doc_type(self, df, doc_types) ==
    by_doc_type_frame(self, by_doc_type_rows(doc_types, masked(df, doc_types)))

calculate_metrics_by_doc_type(self, df) ==
    by_doc_type(self, df, value_counts(Column(df, "doc_class")))

---------------------------------------------------------------------------
(* MetricEvaluator.group_by_doc_question *)

Alphabet == "_abcdefghijklmnopqrstuvwxyz"
Ord(c) == CHOOSE i \in 1..Len(Alphabet) : Char(Alphabet, i) = c

\* str < str
RECURSIVE StrLess(_, _)
StrLess(a, b) ==
    IF Len(b) = 0 THEN FALSE
    ELSE IF Len(a) = 0 THEN TRUE
    ELSE IF Char(a, 1) # Char(b, 1) THEN Ord(Char(a, 1)) < Ord(Char(b, 1))
    ELSE StrLess(SubSeq(a, 2, Len(a)), SubSeq(b, 2, Len(b)))

KeyLess(x, y) == StrLess(x[1], y[1]) \/ (x[1] = y[1] /\ StrLess(x[2], y[2]))

\* the group keys in sorted order (groupby's sort=True)
Least(keys) == CHOOSE x \in keys : \A y \in keys \ {x} : KeyLess(x, y)

RECURSIVE sorted_keys(_)
sorted_keys(keys) ==
    IF keys = {} THEN <<>>
    ELSE <<Least(keys)>> \o sorted_keys(keys \ {Least(keys)})

GroupColumns == <<"doc_class", "question_type", "wer_error", "cer_error", "bleu_score">>

TupleSubsetError == Error("ValueError", "DataFrameGroupBy.__getitem__: tuple of columns")

GroupKeys(df) ==
    {<<df.rows[k]["doc_class"], df.rows[k]["question_type"]>> : k \in 1..Len(df.rows)}

GroupMembers(df, key) ==
    SelectSeq(df.rows, LAMBDA r : r["doc_class"] = key[1] /\ r["question_type"] = key[2])

grouped(self, df, keys) ==
    [self |-> self, raised |-> NoError,
     ret |-> [kind |-> "DataFrame",
              value |-> [columns |-> GroupColumns,
                         index |-> [k \in 1..Len(keys) |-> <<>>],
                         rows |-> [k \in 1..Len(keys) |->
                             [doc_class |-> keys[k][1],
                              question_type |-> keys[k][2],
                              wer_error |-> mean(GroupMembers(df, keys[k]), "wer_error"),
                              cer_error |-> mean(GroupMembers(df, keys[k]), "cer_error"),
                              bleu_score |-> mean(GroupMembers(df, keys[k]), "bleu_score")]]]]]

\* df.groupby([...])['wer_error', 'cer_error', 'bleu_score'] subscripts the
\* grouped frame with a tuple of three names.  pandas 1.x takes the tuple as
\* a list of columns (with a FutureWarning); pandas 2.x raises ValueError
\* ("Cannot subset columns with a tuple with more than one element").  Then
\* .mean().reset_index(): one row per key, keys sorted.
group_by_doc_question(self, df, pandas_line) ==
    IF pandas_line = "2.x" THEN [self |-> self, raised |-> TupleSubsetError, ret |-> NoRet]
    ELSE grouped(self, df, sorted_keys(GroupKeys(df)))

---------------------------------------------------------------------------
(* Input files of the loading specification *)

\* DataFrame.to_csv(sep=...), index=False: a field holding the separator or a
\* quote goes between double quotes.
Quoted(cell, sep) ==
    IF Contains(cell, sep) \/ Contains(cell, "\"") THEN "\"" \o cell \o "\"" ELSE cell

to_csv(t, sep) ==
    <<Join([j \in 1..Len(t.columns) |-> Quoted(t.columns[j], sep)], sep)>>
    \o [k \in 1..Len(t.rows) |->
            Join([j \in 1..Len(t.columns) |-> Quoted(t.rows[k][t.columns[j]], sep)], sep)]

MkTable(columns, rows) ==
    [columns |-> columns, index |-> [k \in 1..Len(rows) |-> <<>>], rows |-> rows]

SeqsUpTo(S, n) == UNION {[1..k -> S] : k \in 0..n}

LoadColumns == {<<"id", "answers">>, <<"answers", "id">>}
LoadRows == {[id |-> "1", answers |-> "['a']"], [id |-> "2", answers |-> "['a', 'b']"]}
LoadTables == {MkTable(c, r) : c \in LoadColumns, r \in SeqsUpTo(LoadRows, MaxFileRows)}

\* no delimiter parses the third line; and a file without lines
BrokenFiles == {<<"id", "1", "2,3\t4">>, <<>>}

LoadFiles == {to_csv(t, sep) : t \in LoadTables, sep \in {",", "\t"}} \cup BrokenFiles

PandasLines == {"1.x", "2.x"}

---------------------------------------------------------------------------
(* The loading specification: construct an evaluator from two files *)

InitLoad ==
    /\ true_file \in LoadFiles
    /\ pred_file \in LoadFiles
    /\ pandas \in PandasLines
    /\ true_csv = NoTable
    /\ pred_csv = NoTable
    /\ evaluator = "none"
    /\ op = "none"
    /\ per_row = NoTable
    /\ ret = NoRet
    /\ raised = NoError

Constructs(c) ==
    /\ true_csv' = c.true_csv
    /\ pred_csv' = c.pred_csv
    /\ raised' = c.raised
    /\ evaluator' = IF c.raised = NoError THEN "ready" ELSE "failed"

Construct ==
    /\ evaluator = "none"
    /\ op = "none"
    /\ Constructs(init(true_file, pred_file))
    /\ op' = "__init__"
    /\ UNCHANGED <<true_file, pred_file, pandas, per_row, ret>>

NextLoad == Construct

SpecLoad == InitLoad /\ [][NextLoad]_vars

---------------------------------------------------------------------------
(* Inputs of the evaluation and grouping specifications *)

EvalColumns == <<"id", "doc_class", "question_type", "answers", "answear_bbox">>

\* answers cells: two answers of one word, one answer of four words, one of
\* three, text that is no literal, a list cut short, and a set display
TrueAnswers == {"['cat', 'dog']", "['the cat sat down']", "oops", "{'cat'}"}
PredAnswers == {"['cat', 'dog']", "['the cat sat down']", "['the cot sat']", "['cat'"}

EvalRow(k, answers) ==
    [id |-> Char("123456789", k),
     doc_class |-> IF k % 2 = 1 THEN "invoice" ELSE "receipt",
     question_type |-> IF k <= 2 THEN "date" ELSE "total",
     answers |-> answers,
     answear_bbox |-> "[1, 2, 3, 4]"]

EvalTable(answers) == MkTable(EvalColumns, [k \in 1..Len(answers) |-> EvalRow(k, answers[k])])

DfColumns == <<"doc_class", "question_type", "wer_error", "cer_error", "bleu_score">>
DfRowSamples ==
    {[doc_class |-> c, question_type |-> q, wer_error |-> m[1], cer_error |-> m[2], bleu_score |-> m[3]] :
        c \in {"invoice", "receipt"}, q \in {"total", "date"}, m \in {<<0, 0, 100>>, <<50, 10, 30>>}}
DfTables == {MkTable(DfColumns, r) : r \in SeqsUpTo(DfRowSamples, MaxDfRows)}

\* the per-row table the caller holds in the evaluation specification: two
\* classes and three keys
DfSample ==
     MkTable(DfColumns,
        <<[doc_class |-> "receipt", question_type |-> "total", wer_error |-> 50, cer_error |-> 10, bleu_score |-> 30],
          [doc_class |-> "invoice", question_type |-> "total", wer_error |-> 0, cer_error |-> 0, bleu_score |-> 100],
          [doc_class |-> "invoice", question_type |-> "date", wer_error |-> 50, cer_error |-> 10, bleu_score |-> 30]>>)

---------------------------------------------------------------------------
(* The evaluation specification: the methods of a constructed evaluator *)

ReadyAs(tf, pf, c) ==
    /\ c.raised = NoError
    /\ true_file = tf
    /\ pred_file = pf
    /\ true_csv = c.true_csv
    /\ pred_csv = c.pred_csv
    /\ evaluator = "ready"
    /\ op = "__init__"
    /\ ret = NoRet
    /\ raised = NoError

ReadyFrom(tf, pf) == ReadyAs(tf, pf, init(tf, pf))

\* the state __init__ leaves behind for two comma-delimited files
Ready(true_answers, pred_answers) ==
    ReadyFrom(to_csv(EvalTable(true_answers), ","), to_csv(EvalTable(pred_answers), ","))

Init ==
    /\ \E n \in 0..MaxRows :
          \E ta \in [1..n -> TrueAnswers], pa \in [1..n -> PredAnswers] : Ready(ta, pa)
    /\ pandas \in PandasLines
    /\ per_row = DfSample

Self == [true_csv |-> true_csv, pred_csv |-> pred_csv]

Call(name, out) ==
    /\ evaluator = "ready"
    /\ op' = name
    /\ ret' = out.ret
    /\ raised' = out.raised
    /\ true_csv' = out.self.true_csv
    /\ pred_csv' = out.self.pred_csv
    /\ UNCHANGED <<true_file, pred_file, pandas, per_row, evaluator>>

Call_calculate_metrics_by_id ==
    Call("calculate_metrics_by_id", calculate_metrics_by_id(Self))

Call_calculate_metrics_general ==
    Call("calculate_metrics_general", calculate_metrics_general(Self))

Call_calculate_metrics_by_doc_type ==
    Call("calculate_metrics_by_doc_type", calculate_metrics_by_doc_type(Self, per_row))

Call_group_by_doc_question ==
    Call("group_by_doc_question", group_by_doc_question(Self, per_row, pandas))

Next ==
    \/ Call_calculate_metrics_by_id
    \/ Call_calculate_metrics_general
    \/ Call_calculate_metrics_by_doc_type
    \/ Call_group_by_doc_question

Spec == Init /\ [][Next]_vars

---------------------------------------------------------------------------
(* The grouping specification: the grouping methods over many tables *)

InitGroup ==
    /\ pandas \in PandasLines
    /\ per_row \in DfTables
    /\ Ready(<<"['cat', 'dog']">>, <<"['cat', 'dog']">>)

NextGroup ==
    \/ Call_calculate_metrics_by_doc_type
    \/ Call_group_by_doc_question

SpecGroup == InitGroup /\ [][NextGroup]_vars

---------------------------------------------------------------------------
(* Claims about construction (checked under SpecLoad) *)

Constructed == op = "__init__"
BothRead == read_file(true_file).raised = NoError /\ read_file(pred_file).raised = NoError

\* C1: when the two loaded tables' column name sequences differ (also when
\* they hold the same names in another order, and also when the row counts
\* differ as well), __init__ raises the column-mismatch error and no
\* evaluator results.
C1_SchemaMismatchRejected ==
    (Constructed /\ BothRead /\ true_csv.columns # pred_csv.columns)
        => (raised = ColumnsError /\ evaluator = "failed")

\* the same names in another order and different row counts: the column
\* error is the one raised
C1_Witness ==
    /\ Constructed
    /\ Range(true_csv.columns) = Range(pred_csv.columns)
    /\ true_csv.columns # pred_csv.columns
    /\ Len(true_csv.rows) # Len(pred_csv.rows)
    /\ raised = ColumnsError

\* C2: with identical column sequences, different row counts make __init__
\* raise the row-count error, which is not the column-mismatch error, and no
\* evaluator results; equal row counts make construction succeed whatever
\* the cells hold.
C2_RowCountMismatchRejected ==
    (Constructed /\ BothRead /\ true_csv.columns = pred_csv.columns)
        => IF Len(true_csv.rows) # Len(pred_csv.rows)
           THEN raised = RowsError /\ raised # ColumnsError /\ evaluator = "failed"
           ELSE raised = NoError /\ evaluator = "ready"

C2_Witness ==
    /\ Constructed
    /\ true_csv.columns = pred_csv.columns
    /\ Len(true_csv.rows) = Len(pred_csv.rows) + 1
    /\ raised = RowsError
    /\ evaluator = "failed"

\* C3 (as claimed): for every logical table, loading its comma-delimited
\* encoding and loading its tab-delimited encoding yield the same table.
C3_DelimiterEquivalence ==
    \A t \in LoadTables :
        (Constructed /\ true_file = to_csv(t, ",") /\ pred_file = to_csv(t, "\t"))
            => (true_csv = t /\ pred_csv = t)

\* C3, the parts that hold: a comma parse that raises ParserError falls back
\* to the tab parse, and a file neither delimiter parses makes loading raise.
C3_FallbackOnParserError ==
    Constructed =>
        /\ (read_csv(true_file, ",").raised.type = "ParserError"
                => read_file(true_file) = read_csv(true_file, "\t"))
        /\ (read_csv(true_file, ",").raised.type # "ParserError"
                => read_file(true_file) = read_csv(true_file, ","))
        /\ ((read_csv(true_file, ",").raised # NoError /\ read_csv(true_file, "\t").raised # NoError)
                => (evaluator = "failed" /\ raised = read_file(true_file).raised))

---------------------------------------------------------------------------
(* Claims about the per-row and corpus metrics (checked under Spec) *)

ByIdReturned == op = "calculate_metrics_by_id" /\ raised = NoError
GeneralCalled == op = "calculate_metrics_general"

TrueDecoded(i) == literal_eval(true_csv.rows[i]["answers"])
PredDecoded(i) == literal_eval(pred_csv.rows[i]["answers"])
IsList(d) == d.raised = NoError /\ d.kind = "list"

Kept == <<"id", "doc_class", "question_type", "answers">>
RowMetrics(r) ==
    [wer_error |-> r["wer_error"], cer_error |-> r["cer_error"], bleu_score |-> r["bleu_score"]]

\* C4: when calculate_metrics_by_id returns, its table has one row per row
\* of the stored tables, in their order (none for empty tables); row i holds
\* the reference row's id, class, question type and answers, the prediction
\* row's answers as pred_answers, and the three metrics of the decoded
\* answers of reference row i and prediction row i; it has no answear_bbox
\* column.
C4_OneRecordPerRow ==
    ByIdReturned =>
        /\ ret.kind = "DataFrame"
        /\ ret.value.columns = Kept \o MetricColumns
        /\ Len(ret.value.rows) = Len(true_csv.rows)
        /\ \A i \in 1..Len(true_csv.rows) :
              /\ DOMAIN ret.value.rows[i] = Range(Kept) \cup Range(MetricColumns)
              /\ \A c \in Range(Kept) : ret.value.rows[i][c] = true_csv.rows[i][c]
              /\ ret.value.rows[i]["pred_answers"] = pred_csv.rows[i]["answers"]
              /\ IsList(TrueDecoded(i)) /\ IsList(PredDecoded(i))
              /\ RowMetrics(ret.value.rows[i])
                    = metrics(TrueDecoded(i).value, PredDecoded(i).value).value

\* two rows with different predictions and different word error rates
C4_Witness ==
    /\ ByIdReturned
    /\ Len(ret.value.rows) = 2
    /\ ret.value.rows[1]["pred_answers"] # ret.value.rows[2]["pred_answers"]
    /\ ret.value.rows[1]["wer_error"].num = 0
    /\ ret.value.rows[2]["wer_error"].num > 0

SameAnswers(i) == IsList(TrueDecoded(i)) /\ TrueDecoded(i) = PredDecoded(i)

\* C5 (as claimed): every row whose decoded prediction equals its decoded
\* reference gets wer_error 0.0, cer_error 0.0 and bleu_score 100.0.
C5_IdenticalAnswersScorePerfect ==
    ByIdReturned =>
        \A i \in 1..Len(ret.value.rows) :
            SameAnswers(i) =>
                /\ ret.value.rows[i]["wer_error"].num = 0
                /\ ret.value.rows[i]["cer_error"].num = 0
                /\ ret.value.rows[i]["bleu_score"].score = "100.0"

\* C5, the part that holds: the two error rates of such a row are 0, and its
\* BLEU score is 100.0 when some answer has four words or more and 0.0
\* otherwise.
C5_IdenticalAnswersZeroErrors ==
    ByIdReturned =>
        \A i \in 1..Len(ret.value.rows) :
            SameAnswers(i) =>
                /\ ret.value.rows[i]["wer_error"].num = 0
                /\ ret.value.rows[i]["cer_error"].num = 0
                /\ ret.value.rows[i]["bleu_score"].score =
                      IF \E k \in 1..Len(TrueDecoded(i).value) :
                            Len(Words(TrueDecoded(i).value[k])) >= MAX_NGRAM_ORDER
                      THEN "100.0" ELSE "0.0"

OneRow == Len(true_csv.rows) = 1

SameAsRow(general, by_id) ==
    by_id.raised = NoError =>
        /\ general.raised = NoError
        /\ general.ret.kind = "dict"
        /\ general.ret.value = RowMetrics(by_id.ret.value.rows[1])

Flattened(lists) ==
    (IsList(TrueDecoded(1)) /\ IsList(PredDecoded(1))) =>
        /\ lists.true_answers = TrueDecoded(1).value
        /\ lists.pred_answers = PredDecoded(1).value

\* C6: with stored tables of one row, the three metrics that
\* calculate_metrics_general returns are those of the row that
\* calculate_metrics_by_id returns, and the lists it builds are the row's
\* decoded lists.
C6_GeneralOfOneRowIsPerRow ==
    (GeneralCalled /\ OneRow) =>
        /\ SameAsRow([raised |-> raised, ret |-> ret], calculate_metrics_by_id(Self))
        /\ Flattened(general_loop(Self, 1, <<>>, <<>>))

\* one row with a wrong prediction
C6_Witness ==
    /\ GeneralCalled
    /\ OneRow
    /\ raised = NoError
    /\ ret.value["wer_error"].num > 0
    /\ calculate_metrics_by_id(Self).raised = NoError

Loaded == [true_csv |-> read_file(true_file).table, pred_csv |-> read_file(pred_file).table]

AsLoaded ==
    /\ Self = Loaded
    /\ true_csv.columns = pred_csv.columns
    /\ Len(true_csv.rows) = Len(pred_csv.rows)
    /\ HasColumn(true_csv, "answear_bbox")

Outcome(out) == [raised |-> out.raised, ret |-> out.ret]

\* what the last call gave is what its method gives on the stored tables
ResultOfStoredTables ==
    /\ op = "calculate_metrics_by_id"
          => [raised |-> raised, ret |-> ret] = Outcome(calculate_metrics_by_id(Self))
    /\ op = "calculate_metrics_general"
          => [raised |-> raised, ret |-> ret] = Outcome(calculate_metrics_general(Self))
    /\ op = "calculate_metrics_by_doc_type"
          => [raised |-> raised, ret |-> ret] = Outcome(calculate_metrics_by_doc_type(Self, per_row))
    /\ op = "group_by_doc_question"
          => [raised |-> raised, ret |-> ret] = Outcome(group_by_doc_question(Self, per_row, pandas))

\* C9: a constructed evaluator stores the tables as loaded, of the same
\* columns and as many rows, the reference table with its answear_bbox
\* column; no call, whether it returns or raises, changes either stored
\* table; so what a call gives depends on the stored tables alone, and a
\* repeated call gives the same.
C9_StoredTablesNeverChange ==
    /\ AsLoaded
    /\ [][true_csv' = true_csv /\ pred_csv' = pred_csv]_vars
    /\ []ResultOfStoredTables

\* calculate_metrics_by_id has returned a table without the column, and the
\* stored reference table still has it
C9_Witness ==
    /\ ByIdReturned
    /\ Len(true_csv.rows) > 0
    /\ HasColumn(true_csv, "answear_bbox")
    /\ ~HasColumn(ret.value, "answear_bbox")

InvalidAnswers ==
    \E i \in 1..Len(true_csv.rows) : ~IsList(TrueDecoded(i)) \/ ~IsList(PredDecoded(i))

\* C10 (as claimed): when the answers cell of some row of either table is not
\* the text of a list, calculate_metrics_by_id and calculate_metrics_general
\* raise the decoder's error and return nothing.
C10_InvalidAnswersRaiseDecodeError ==
    (op \in {"calculate_metrics_by_id", "calculate_metrics_general"} /\ InvalidAnswers)
        => (raised \in DecodeErrors /\ ret = NoRet)

\* C10, the part that holds: a call that raises returns nothing and a call
\* that returns covers every row; text that literal_eval refuses makes both
\* methods raise.
C10_NoPartialResult ==
    (op \in {"calculate_metrics_by_id", "calculate_metrics_general"}) =>
        /\ raised # NoError => ret = NoRet
        /\ ByIdReturned => Len(ret.value.rows) = Len(true_csv.rows)
        /\ (\E i \in 1..Len(true_csv.rows) :
                TrueDecoded(i).raised # NoError \/ PredDecoded(i).raised # NoError)
             => raised # NoError

---------------------------------------------------------------------------
(* Claims about the grouping methods (checked under SpecGroup) *)

Classes == {per_row.rows[k]["doc_class"] : k \in 1..Len(per_row.rows)}
Pairs == {<<per_row.rows[k]["doc_class"], per_row.rows[k]["question_type"]>> : k \in 1..Len(per_row.rows)}
RowsOfClass(c) == {k \in 1..Len(per_row.rows) : per_row.rows[k]["doc_class"] = c}
RowsOfPair(c, q) == {k \in RowsOfClass(c) : per_row.rows[k]["question_type"] = q}

MeanOver(S, column) ==
    [num |-> SumOver([k \in S |-> per_row.rows[k][column]], S), den |-> Cardinality(S)]

Means == {"wer_error", "cer_error", "bleu_score"}

\* C7: calculate_metrics_by_doc_type returns one row for each doc_class of
\* the table and for no other, none twice; the three values of a row are the
\* means over exactly the rows of its class; the group sizes add up to the
\* number of rows.
C7_OneGroupPerDocClass ==
    op = "calculate_metrics_by_doc_type" =>
        /\ raised = NoError
        /\ Len(ret.value.rows) = Cardinality(Classes)
        /\ {ret.value.rows[g]["doc_class"] : g \in 1..Len(ret.value.rows)} = Classes
        /\ \A g \in 1..Len(ret.value.rows) : \A m \in Means :
              ret.value.rows[g][m] = MeanOver(RowsOfClass(ret.value.rows[g]["doc_class"]), m)
        /\ SumSeq([g \in 1..Len(ret.value.rows) |-> ret.value.rows[g]["wer_error"].den])
              = Len(per_row.rows)

\* two rows of class invoice and one of class receipt give two group rows
C7_Witness ==
    /\ op = "calculate_metrics_by_doc_type"
    /\ Cardinality(RowsOfClass("invoice")) = 2
    /\ Cardinality(RowsOfClass("receipt")) = 1
    /\ Len(ret.value.rows) = 2
    /\ ret.value.rows[1]["doc_class"] = "invoice"
    /\ ret.value.rows[1]["wer_error"].den = 2

OneSortedRowPerPair ==
    /\ raised = NoError
    /\ ret.kind = "DataFrame"
    /\ Len(ret.value.rows) = Cardinality(Pairs)
    /\ {<<ret.value.rows[g]["doc_class"], ret.value.rows[g]["question_type"]>> :
            g \in 1..Len(ret.value.rows)} = Pairs
    /\ \A g \in 1..Len(ret.value.rows) : \A m \in Means :
          ret.value.rows[g][m] =
              MeanOver(RowsOfPair(ret.value.rows[g]["doc_class"], ret.value.rows[g]["question_type"]), m)
    /\ \A g \in 1..(Len(ret.value.rows) - 1) :
          KeyLess(<<ret.value.rows[g]["doc_class"], ret.value.rows[g]["question_type"]>>,
                  <<ret.value.rows[g + 1]["doc_class"], ret.value.rows[g + 1]["question_type"]>>)

\* C8 (as claimed): group_by_doc_question returns one row for each pair of
\* doc_class and question_type of the table, with the means over exactly the
\* rows of the pair, the rows in the order of the pairs.
C8_OneSortedRowPerPair ==
    op = "group_by_doc_question" => OneSortedRowPerPair

\* C8, what the pandas line decides: under pandas 1.x the method returns the
\* table claimed, under pandas 2.x it raises for every table.
C8_ByPandasLine ==
    op = "group_by_doc_question" =>
        IF pandas = "1.x" THEN OneSortedRowPerPair
        ELSE raised = TupleSubsetError /\ ret = NoRet

===========================================================================
